---- MODULE Spec2Model ----
(***************************************************************************)
(* RingLocationDevice (plugins/ring/src/location.ts): the location        *)
(* controller of the Ring plugin.  The model covers the security-mode     *)
(* reconciler set up by the constructor, device discovery, the device     *)
(* cache behind getDevice and the arm/disarm entry points.                *)
(*                                                                         *)
(* JavaScript runs every callback to completion, so one action is one     *)
(* callback, or one stretch of an async function between two awaits.      *)
(* The initial state is the state in which the constructor returns.       *)
(***************************************************************************)
EXTENDS Integers, Sequences, FiniteSets, TLC

\* Bounds of the model.
MaxQueries == 2     \* getLocationMode queries started by panel events and not yet settled
MaxRuns == 2        \* discoverDevices runs suspended at an await at the same time

(***************************************************************************)
(* Values                                                                  *)
(***************************************************************************)
\* An optional value (undefined, or a value) is a sequence of length 0 or 1.
Undefined == << >>
Some(x) == << x >>

\* SecuritySystemMode (@scrypted/sdk).
Disarmed == "Disarmed"
HomeArmed == "HomeArmed"
AwayArmed == "AwayArmed"
NightArmed == "NightArmed"
SecuritySystemModes == {Disarmed, HomeArmed, AwayArmed, NightArmed}

\* LocationMode values the vendor reports; 'disabled' is the literal of line 117.
LocationModes == {"away", "home", "disarmed"}
\* The values of the nightModeBypassAlarmState setting.
NightModeSettings == {"Disabled", "Home", "Away"}

VARIABLES
    \* ---- the vendor and the plugin settings (environment)
    hasAlarmBaseStation,        \* location.hasAlarmBaseStation
    nightModeBypassAlarmState,  \* plugin.settingsStorage.values.nightModeBypassAlarmState
    vendorMode,                 \* the mode the vendor holds for the location
    cameras,                    \* location.cameras, a sequence of camera ids
    vendorDevices,              \* what location.getDevices() resolves to, a sequence of device ids
    \* ---- the security-mode reconciler
    securitySystemState,        \* this.securitySystemState: Undefined or Some(snapshot)
    onLocationModeSubscribed,   \* updateLocationMode is subscribed to location.onLocationMode
    panel,                      \* the getSecurityPanel() promise: "pending", "resolved", "rejected"
    panelSubscribed,            \* the handler of lines 101-105 is subscribed to panel.onData
    startupQuery,               \* the getLocationMode() promise of line 112
    panelQueries,               \* the getLocationMode() promises of line 102, a bag
    unhandled,                  \* sources of promise rejections that no handler caught
    modeFeedDelivered,          \* a mode-feed event has been delivered
    \* ---- discovery and the device cache
    locationDevices,            \* this.locationDevices: Map nativeId -> vendor record
    devices,                    \* this.devices: Map nativeId -> device instance
    runs,                       \* the discoverDevices runs suspended at an await
    published,                  \* the argument of the latest deviceManager.onDevicesChanged call
    instances,                  \* nativeId -> the number of instances constructed for it
    \* ---- the latest step
    last,                       \* what the latest callback was and what it returned or issued
    \* ---- history variables: they record the past and no action of the program reads them
    discoveryHistory,           \* the index a run started from, and the runs that completed
    modeHistory                 \* how the feed events and the query responses were ordered

envVars == << hasAlarmBaseStation, nightModeBypassAlarmState, vendorMode, cameras, vendorDevices >>
feedVars == << onLocationModeSubscribed, modeFeedDelivered >>
modeVars == << securitySystemState, feedVars, panel, panelSubscribed, startupQuery,
               panelQueries, unhandled >>
discoveryVars == << locationDevices, devices, runs, published, instances >>
historyVars == << discoveryHistory, modeHistory >>
vars == << envVars, modeVars, discoveryVars, last, historyVars >>

(***************************************************************************)
(* The vendor's records.  A record is referred to by its identifier; what *)
(* the code reads of it is given by the functions below.                  *)
(***************************************************************************)
\* RingDeviceType members, as the dot-separated tokens of the type tag.
ContactSensor == << "sensor", "contact" >>
RetrofitZone == << "sensor", "zone" >>
TiltSensor == << "sensor", "tilt" >>
MotionSensor == << "sensor", "motion" >>
FloodFreezeSensor == << "sensor", "flood-freeze" >>
WaterSensor == << "sensor", "water" >>

\* The cameras a location may hold (RingCamera).
CameraRecords ==
    101 :> [isRingEdgeEnabled |-> FALSE, operatingOnBattery |-> TRUE, isDoorbot |-> TRUE,
            hasLight |-> FALSE, hasSiren |-> FALSE]
 @@ 102 :> [isRingEdgeEnabled |-> TRUE, operatingOnBattery |-> FALSE, isDoorbot |-> FALSE,
            hasLight |-> TRUE, hasSiren |-> TRUE]

\* The status flag of a camera's vendor record; discoverDevices does not read it.
CameraStatus == 101 :> "ok" @@ 102 :> "disabled"

\* The generic devices a location may hold (RingDevice and its RingDeviceData).
DeviceRecords ==
    1 :> [deviceType |-> ContactSensor, status |-> "ok", batteryStatus |-> "full", faulted |-> TRUE]
 @@ 2 :> [deviceType |-> << "lock", "v2" >>, status |-> "ok", batteryStatus |-> "none", faulted |-> FALSE]
 @@ 3 :> [deviceType |-> << "unknown-gadget" >>, status |-> "ok", batteryStatus |-> "full", faulted |-> TRUE]
 @@ 4 :> [deviceType |-> ContactSensor, status |-> "disabled", batteryStatus |-> "full", faulted |-> TRUE]
 @@ 5 :> [deviceType |-> RetrofitZone, status |-> "ok", batteryStatus |-> "none", faulted |-> TRUE]
 @@ 6 :> [deviceType |-> MotionSensor, status |-> "ok", batteryStatus |-> "ok", faulted |-> TRUE]

\* Further generic devices, one for each combination of a type tag, a status and
\* a battery status: device 1000 + ((t - 1) * 2 + (s - 1)) * 3 + (b - 1).
TypeTags ==
    << ContactSensor, RetrofitZone, TiltSensor, MotionSensor, FloodFreezeSensor, WaterSensor,
       << "lock" >>, << "lock", "v2" >>, << "locksmith" >>, << "door", "lock" >>,
       << "unknown-gadget" >>, << "sensor" >> >>
Statuses == << "ok", "disabled" >>
BatteryStatuses == << "full", "none", "low" >>
TypedRecords ==
    [id \in 1000 .. (1000 + Len(TypeTags) * 2 * 3 - 1) |->
        [deviceType |-> TypeTags[((id - 1000) \div 6) + 1],
         status |-> Statuses[(((id - 1000) \div 3) % 2) + 1],
         batteryStatus |-> BatteryStatuses[((id - 1000) % 3) + 1],
         faulted |-> FALSE]]

\* locationDevice.data of the generic device with this id.
dataOf(id) == IF id \in DOMAIN DeviceRecords THEN DeviceRecords[id] ELSE TypedRecords[id]

\* The camera collections and the device enumerations the vendor may hold.
CameraLists == { << >>, << 101, 102 >> }
DeviceLists == { << >>, << 1, 2, 3, 4 >> }
\* Enumerations with faulted and unfaulted sensors, for the bypass list.
SensorLists == { << 1, 2, 3 >>, << 1, 4, 5, 6 >> }
\* Enumerations of one typed device followed by the contact sensor 1.
TypedLists == { << t, 1 >> : t \in DOMAIN TypedRecords }

\* A reference to a vendor record, as the index and the device instances hold it.
CameraRef(id) == [kind |-> "camera", id |-> id]
DeviceRef(id) == [kind |-> "device", id |-> id]

\* A nativeId: id.toString() followed by a suffix.  Vendor identifiers are numbers
\* and uuids, so a nativeId ends with '-sensor' or '-lock' exactly when that suffix
\* was appended.
NativeId(id, suffix) == [id |-> id, suffix |-> suffix]
endsWith(nativeId, suffix) == nativeId.suffix = suffix
NoId == NativeId(0, "")

\* A JavaScript Map: a function whose domain is the set of keys present.
EmptyMap == << >>
MapHas(map, key) == key \in DOMAIN map
MapGet(map, key) == IF key \in DOMAIN map THEN Some(map[key]) ELSE Undefined
MapSet(map, key, value) ==
    [k \in DOMAIN map \cup {key} |-> IF k = key THEN value ELSE map[k]]

\* What the latest step was.
Step(op, arg, id, cmds, result, inst) ==
    [op |-> op, arg |-> arg, id |-> id, cmds |-> cmds, result |-> result, inst |-> inst]

(***************************************************************************)
(* The security-mode reconciler (constructor, lines 71-119)                *)
(***************************************************************************)
\* Mutant of updateLocationMode: the 'home' branch of lines 75-76 is missing.
updateLocationModeNoHome(f) ==
    Some([mode |-> IF f = "away" THEN AwayArmed ELSE Disarmed,
          triggered |-> FALSE,
          supportedModes |->
              IF nightModeBypassAlarmState # "Disabled"
              THEN << Disarmed, AwayArmed, HomeArmed, NightArmed >>
              ELSE << Disarmed, AwayArmed, HomeArmed >>])

\* Lines 71-95.  The snapshot updateLocationMode(f) stores; the setting is read
\* when the function runs.
updateLocationMode(f) ==
    LET mode == IF f = "away" THEN AwayArmed
                ELSE IF f = "home" THEN HomeArmed
                ELSE Disarmed
        supportedModes == << Disarmed, AwayArmed, HomeArmed >>
    IN  Some([mode |-> mode,
              triggered |-> FALSE,
              supportedModes |->
                  IF nightModeBypassAlarmState # "Disabled"
                  THEN Append(supportedModes, NightArmed)
                  ELSE supportedModes])

\* Mutant of catchPanelError: the chain of line 100 has no catch.
noCatchPanelError(rejections) == rejections \cup {"getSecurityPanel"}

\* Lines 106-109.  The catch handler of the getSecurityPanel() chain: the
\* rejection is handled and nothing is rethrown.
catchPanelError(rejections) == rejections

\* Lines 102 and 112.  The getLocationMode() chains have a then and no catch: a
\* rejection is left unhandled.
rejectLocationMode(rejections) == rejections \cup {"getLocationMode"}

\* Mutant of startupState: lines 116-118 are missing.
startupStateUnforced(state) == state

\* Lines 111-119.  What the constructor leaves in securitySystemState: the query of
\* line 112 has only been started when line 116 tests the state.
startupState(state) ==
    IF hasAlarmBaseStation
    THEN IF state = Undefined THEN updateLocationMode("disabled") ELSE state
    ELSE state

\* The bag of pending panel queries: "sent" while the vendor has not answered,
\* otherwise the mode the vendor answered with.
QueryStates == {"sent"} \cup LocationModes
NoQueries == [q \in QueryStates |-> 0]
RECURSIVE Sum(_, _)
Sum(bag, keys) ==
    IF keys = {} THEN 0
    ELSE LET k == CHOOSE x \in keys : TRUE IN bag[k] + Sum(bag, keys \ {k})
QueryCount == Sum(panelQueries, QueryStates)

\* Line 96: a mode-feed event delivers the account's new mode f to updateLocationMode.
ModeFeed(f) ==
    /\ onLocationModeSubscribed
    /\ vendorMode' = f
    /\ securitySystemState' = updateLocationMode(f)
    /\ modeFeedDelivered' = TRUE
    /\ last' = Step("modeFeed", f, NoId, << >>, "ok", 0)
    /\ UNCHANGED << hasAlarmBaseStation, nightModeBypassAlarmState, cameras, vendorDevices,
                    onLocationModeSubscribed, panel, panelSubscribed, startupQuery,
                    panelQueries, unhandled, discoveryVars >>

\* The mode changes at the base station or by a vendor command: no mode-feed event
\* is sent for it (comment of lines 98-99).
VendorModeChange(f) ==
    /\ f # vendorMode
    /\ vendorMode' = f
    /\ last' = Step("vendorModeChange", f, NoId, << >>, "ok", 0)
    /\ UNCHANGED << hasAlarmBaseStation, nightModeBypassAlarmState, cameras, vendorDevices,
                    modeVars, discoveryVars >>

\* The user changes the nightModeBypassAlarmState setting.
SetNightMode(v) ==
    /\ v # nightModeBypassAlarmState
    /\ nightModeBypassAlarmState' = v
    /\ last' = Step("setNightMode", v, NoId, << >>, "ok", 0)
    /\ UNCHANGED << hasAlarmBaseStation, vendorMode, cameras, vendorDevices,
                    modeVars, discoveryVars >>

\* Lines 100-101: getSecurityPanel() resolves and the handler subscribes to panel.onData.
PanelResolve ==
    /\ panel = "pending"
    /\ panel' = "resolved"
    /\ panelSubscribed' = TRUE
    /\ last' = Step("panelResolve", "", NoId, << >>, "ok", 0)
    /\ UNCHANGED << envVars, securitySystemState, feedVars, startupQuery,
                    panelQueries, unhandled, discoveryVars >>

\* Lines 106-109: getSecurityPanel() rejects.
PanelReject ==
    /\ panel = "pending"
    /\ panel' = "rejected"
    /\ unhandled' = catchPanelError(unhandled)
    /\ last' = Step("panelReject", "", NoId, << >>, "error", 0)
    /\ UNCHANGED << envVars, securitySystemState, feedVars, panelSubscribed,
                    startupQuery, panelQueries, discoveryVars >>

\* Mutant of PanelData: the handler of line 101 starts no query.
PanelDataNoQuery ==
    /\ panelSubscribed
    /\ last' = Step("panelData", "", NoId, << >>, "ok", 0)
    /\ UNCHANGED << envVars, modeVars, discoveryVars >>

\* Lines 101-102: a panel-feed event starts a getLocationMode() query.
PanelData ==
    /\ panelSubscribed
    /\ QueryCount < MaxQueries
    /\ panelQueries' = [panelQueries EXCEPT !["sent"] = @ + 1]
    /\ last' = Step("panelData", "", NoId, << >>, "ok", 0)
    /\ UNCHANGED << envVars, securitySystemState, feedVars, panel,
                    panelSubscribed, startupQuery, unhandled, discoveryVars >>

\* The vendor answers a query with the mode it holds; the response is in flight.
VendorAnswerPanel ==
    /\ panelQueries["sent"] > 0
    /\ panelQueries' = [panelQueries EXCEPT !["sent"] = @ - 1, ![vendorMode] = @ + 1]
    /\ last' = Step("vendorAnswer", vendorMode, NoId, << >>, "ok", 0)
    /\ UNCHANGED << envVars, securitySystemState, feedVars, panel,
                    panelSubscribed, startupQuery, unhandled, discoveryVars >>

VendorAnswerStartup ==
    /\ startupQuery = "sent"
    /\ startupQuery' = vendorMode
    /\ last' = Step("vendorAnswer", vendorMode, NoId, << >>, "ok", 0)
    /\ UNCHANGED << envVars, securitySystemState, feedVars, panel,
                    panelSubscribed, panelQueries, unhandled, discoveryVars >>

\* Mutant of PanelQueryResolve: a response is applied only while there is no
\* snapshot, so it never replaces what a feed event has set.
PanelQueryResolveIfUnset(f) ==
    /\ panelQueries[f] > 0
    /\ panelQueries' = [panelQueries EXCEPT ![f] = @ - 1]
    /\ securitySystemState' = IF securitySystemState = Undefined
                              THEN updateLocationMode(f) ELSE securitySystemState
    /\ last' = Step("panelQueryResolve", f, NoId, << >>, "ok", 0)
    /\ UNCHANGED << envVars, feedVars, panel, panelSubscribed, startupQuery,
                    unhandled, discoveryVars >>

\* Lines 102-104: a panel query resolves with mode f.
PanelQueryResolve(f) ==
    /\ panelQueries[f] > 0
    /\ panelQueries' = [panelQueries EXCEPT ![f] = @ - 1]
    /\ securitySystemState' = updateLocationMode(f)
    /\ last' = Step("panelQueryResolve", f, NoId, << >>, "ok", 0)
    /\ UNCHANGED << envVars, feedVars, panel, panelSubscribed, startupQuery,
                    unhandled, discoveryVars >>

\* Lines 112-114: the startup query resolves with mode f.
StartupQueryResolve(f) ==
    /\ startupQuery = f
    /\ startupQuery' = "resolved"
    /\ securitySystemState' = updateLocationMode(f)
    /\ last' = Step("startupQueryResolve", f, NoId, << >>, "ok", 0)
    /\ UNCHANGED << envVars, feedVars, panel, panelSubscribed, panelQueries,
                    unhandled, discoveryVars >>

\* Line 102: a panel query rejects; the then handler does not run.
PanelQueryReject ==
    /\ panelQueries["sent"] > 0
    /\ panelQueries' = [panelQueries EXCEPT !["sent"] = @ - 1]
    /\ unhandled' = rejectLocationMode(unhandled)
    /\ last' = Step("panelQueryReject", "", NoId, << >>, "error", 0)
    /\ UNCHANGED << envVars, securitySystemState, feedVars, panel,
                    panelSubscribed, startupQuery, discoveryVars >>

\* Line 112: the startup query rejects; the then handler does not run.
StartupQueryReject ==
    /\ startupQuery = "sent"
    /\ startupQuery' = "rejected"
    /\ unhandled' = rejectLocationMode(unhandled)
    /\ last' = Step("startupQueryReject", "", NoId, << >>, "error", 0)
    /\ UNCHANGED << envVars, securitySystemState, feedVars, panel,
                    panelSubscribed, panelQueries, discoveryVars >>

(***************************************************************************)
(* armSecuritySystem and disarmSecuritySystem (lines 252-277)              *)
(***************************************************************************)
\* A vendor command; bypass is Undefined when the call passes no argument.
Command(cmd, bypass) == [cmd |-> cmd, bypass |-> bypass]

\* Object.values(o) lists the values of o's own enumerable string-keyed properties.
\* A Map keeps its entries in an internal slot and no code gives this.locationDevices
\* a property, so whatever the Map holds, the list is empty.
ObjectValues(map) == << >>

\* Line 261, the filter's test.  A camera has no data.faulted.
isFaultedContactSensor(device) ==
    /\ device.kind = "device"
    /\ \/ DeviceRecords[device.id].deviceType = ContactSensor
       \/ DeviceRecords[device.id].deviceType = RetrofitZone
    /\ DeviceRecords[device.id].faulted

\* Lines 260-262.
bypassContactSensors ==
    LET faulted == SelectSeq(ObjectValues(locationDevices), isFaultedContactSensor)
    IN  [i \in DOMAIN faulted |-> faulted[i].id]

\* Mutant of armCommands: the HomeArmed branch calls armAway.
armCommandsHomeAsAway(mode) ==
    IF mode \in {AwayArmed, HomeArmed} THEN << Command("armAway", Undefined) >>
    ELSE IF mode = Disarmed THEN << Command("disarm", Undefined) >>
    ELSE << >>

\* Lines 253-272: the vendor commands armSecuritySystem(mode) issues.
armCommands(mode) ==
    IF mode = AwayArmed THEN << Command("armAway", Undefined) >>
    ELSE IF mode = HomeArmed THEN << Command("armHome", Undefined) >>
    ELSE IF mode = NightArmed
         THEN IF nightModeBypassAlarmState = "Away"
              THEN << Command("armAway", Some(bypassContactSensors)) >>
              ELSE << Command("armHome", Some(bypassContactSensors)) >>
    ELSE IF mode = Disarmed THEN << Command("disarm", Undefined) >>
    ELSE << >>

\* Line 276.
disarmCommands == << Command("disarm", Undefined) >>

\* The mode the vendor holds after the commands: a command that succeeds sets it.
ModeAfter(cmds, outcome) ==
    IF outcome # "ok" \/ cmds = << >> THEN vendorMode
    ELSE IF cmds[1].cmd = "armAway" THEN "away"
    ELSE IF cmds[1].cmd = "armHome" THEN "home"
    ELSE "disarmed"

\* Mutant of ArmSecuritySystem: the state is set to the requested mode once the
\* vendor call has succeeded.
ArmSecuritySystemOptimistic(mode, outcome) ==
    /\ vendorMode' = ModeAfter(armCommands(mode), outcome)
    /\ securitySystemState' =
           IF outcome = "ok"
           THEN Some([mode |-> mode, triggered |-> FALSE,
                      supportedModes |-> << Disarmed, AwayArmed, HomeArmed >>])
           ELSE securitySystemState
    /\ last' = Step("armSecuritySystem", mode, NoId, armCommands(mode), outcome, 0)
    /\ UNCHANGED << hasAlarmBaseStation, nightModeBypassAlarmState, cameras, vendorDevices,
                    feedVars, panel, panelSubscribed, startupQuery, panelQueries, unhandled,
                    discoveryVars >>

\* armSecuritySystem(mode); the vendor call succeeds or fails, and the function
\* does nothing after its await.
ArmSecuritySystem(mode, outcome) ==
    /\ vendorMode' = ModeAfter(armCommands(mode), outcome)
    /\ last' = Step("armSecuritySystem", mode, NoId, armCommands(mode), outcome, 0)
    /\ UNCHANGED << hasAlarmBaseStation, nightModeBypassAlarmState, cameras, vendorDevices,
                    modeVars, discoveryVars >>

\* disarmSecuritySystem().
DisarmSecuritySystem(outcome) ==
    /\ vendorMode' = ModeAfter(disarmCommands, outcome)
    /\ last' = Step("disarmSecuritySystem", "", NoId, disarmCommands, outcome, 0)
    /\ UNCHANGED << hasAlarmBaseStation, nightModeBypassAlarmState, cameras, vendorDevices,
                    modeVars, discoveryVars >>

(***************************************************************************)
(* discoverDevices (lines 124-232)                                         *)
(***************************************************************************)
Descriptor(nativeId, type, interfaces) ==
    [nativeId |-> nativeId, type |-> type, interfaces |-> interfaces]

MapClear(map) == EmptyMap

\* Lines 129-162: the descriptor of one camera.
cameraDevice(id) ==
    LET camera == CameraRecords[id]
        i0 == << "Camera", "MotionSensor", "RTCSignalingChannel" >>
        i1 == IF ~camera.isRingEdgeEnabled
              THEN i0 \o << "VideoCamera", "Intercom", "VideoClips" >> ELSE i0
        i2 == IF camera.operatingOnBattery THEN Append(i1, "Battery") ELSE i1
        i3 == IF camera.isDoorbot THEN Append(i2, "BinarySensor") ELSE i2
        i4 == IF camera.hasLight THEN Append(i3, "DeviceProvider") ELSE i3
        i5 == IF camera.hasSiren THEN Append(i4, "DeviceProvider") ELSE i4
    IN  Descriptor(NativeId(id, ""), IF camera.isDoorbot THEN "Doorbell" ELSE "Camera", i5)

\* Lines 128-165: the loop over location.cameras.
RECURSIVE cameraLoop(_, _, _)
cameraLoop(list, descriptors, index) ==
    IF list = << >> THEN [devices |-> descriptors, locationDevices |-> index]
    ELSE LET device == cameraDevice(Head(list))
         IN  cameraLoop(Tail(list), Append(descriptors, device),
                        MapSet(index, device.nativeId, CameraRef(Head(list))))

\* Mutant of isLockType: the pattern is /^lock/, which also matches 'locksmith'.
isLockTypePrefix(deviceType) == deviceType[1] \in {"lock", "locksmith"}

\* Line 198: /^lock($|\.)/ holds when the first dot-separated token is 'lock'.
isLockType(deviceType) == deviceType[1] = "lock"

\* Lines 169-223: the descriptor of one generic device, Undefined when the loop
\* continues without one.
locationDeviceDescriptor(id) ==
    LET data == dataOf(id)
        sensor(interfaces) == << NativeId(id, "-sensor"), "Sensor", interfaces >>
        classified ==
            IF data.deviceType \in {ContactSensor, RetrofitZone, TiltSensor}
            THEN Some(sensor(<< "TamperSensor", "EntrySensor" >>))
            ELSE IF data.deviceType = MotionSensor
            THEN Some(sensor(<< "TamperSensor", "MotionSensor" >>))
            ELSE IF data.deviceType \in {FloodFreezeSensor, WaterSensor}
            THEN Some(sensor(<< "TamperSensor", "FloodSensor" >>))
            ELSE IF isLockType(data.deviceType)
            THEN Some(<< NativeId(id, "-lock"), "Lock", << "Lock" >> >>)
            ELSE Undefined
    IN  IF data.status = "disabled" THEN Undefined
        ELSE IF classified = Undefined THEN Undefined
        ELSE LET c == classified[1]
                 interfaces == IF data.batteryStatus # "none"
                               THEN Append(c[3], "Battery") ELSE c[3]
             IN  Some(Descriptor(c[1], c[2], interfaces))

\* Lines 168-226: the loop over the devices getDevices() resolved to.
RECURSIVE locationDeviceLoop(_, _, _)
locationDeviceLoop(list, descriptors, index) ==
    IF list = << >> THEN [devices |-> descriptors, locationDevices |-> index]
    ELSE LET device == locationDeviceDescriptor(Head(list))
         IN  IF device = Undefined
             THEN locationDeviceLoop(Tail(list), descriptors, index)
             ELSE locationDeviceLoop(Tail(list), Append(descriptors, device[1]),
                                     MapSet(index, device[1].nativeId, DeviceRef(Head(list))))

\* Mutant of discoverDevicesStart: the index is patched, not rebuilt; a camera the
\* index already holds is passed over.
discoverDevicesStartPatch(index) ==
    cameraLoop(SelectSeq(cameras, LAMBDA c : ~MapHas(index, NativeId(c, ""))), << >>, index)

\* Lines 125-167: discoverDevices up to its first await.
discoverDevicesStart(index) == cameraLoop(cameras, << >>, MapClear(index))

\* A run of discoverDevices suspended at an await: at "getDevices" (line 167) or at
\* "onDevicesChanged" (line 228), with its local list devices.
Run(pc, descriptors, caller) == [pc |-> pc, devices |-> descriptors, caller |-> caller]

RemoveAt(seq, i) == SubSeq(seq, 1, i - 1) \o SubSeq(seq, i + 1, Len(seq))

\* Where a rejected discoverDevices promise goes: line 121 drops the promise, a
\* host caller receives the rejection.
rejectDiscovery(rejections, caller) ==
    IF caller = "constructor" THEN rejections \cup {"discoverDevices"} ELSE rejections

\* The host calls discoverDevices(): lines 125-167.
DiscoverDevices ==
    /\ Len(runs) < MaxRuns
    /\ LET start == discoverDevicesStart(locationDevices)
       IN  /\ locationDevices' = start.locationDevices
           /\ runs' = Append(runs, Run("getDevices", start.devices, "host"))
    /\ last' = Step("discoverDevices", "", NoId, << >>, "pending", 0)
    /\ UNCHANGED << envVars, modeVars, devices, published, instances >>

\* Lines 167-231: getDevices() resolves for run i; the loop runs and
\* onDevicesChanged is called with the list.
GetDevicesResolve(i) ==
    /\ runs[i].pc = "getDevices"
    /\ LET loop == locationDeviceLoop(vendorDevices, runs[i].devices, locationDevices)
       IN  /\ locationDevices' = loop.locationDevices
           /\ published' = Some(loop.devices)
           /\ runs' = [runs EXCEPT ![i] = Run("onDevicesChanged", loop.devices, @.caller)]
    /\ last' = Step("onDevicesChanged", "", NoId, << >>, "pending", 0)
    /\ UNCHANGED << envVars, modeVars, devices, instances >>

\* Mutant of GetDevicesReject: the run publishes the cameras it has before it
\* ends with the error.
GetDevicesRejectPublish(i) ==
    /\ runs[i].pc = "getDevices"
    /\ runs' = RemoveAt(runs, i)
    /\ published' = Some(runs[i].devices)
    /\ unhandled' = rejectDiscovery(unhandled, runs[i].caller)
    /\ last' = Step("discoverDevices", "", NoId, << >>, "error", 0)
    /\ UNCHANGED << envVars, securitySystemState, feedVars, panel,
                    panelSubscribed, startupQuery, panelQueries,
                    locationDevices, devices, instances >>

\* Line 167: getDevices() rejects for run i; the run ends with that error.
GetDevicesReject(i) ==
    /\ runs[i].pc = "getDevices"
    /\ runs' = RemoveAt(runs, i)
    /\ unhandled' = rejectDiscovery(unhandled, runs[i].caller)
    /\ last' = Step("discoverDevices", "", NoId, << >>, "error", 0)
    /\ UNCHANGED << envVars, securitySystemState, feedVars, panel,
                    panelSubscribed, startupQuery, panelQueries,
                    locationDevices, devices, published, instances >>

\* Lines 228-232: onDevicesChanged() resolves for run i; the run returns.
OnDevicesChangedResolve(i) ==
    /\ runs[i].pc = "onDevicesChanged"
    /\ runs' = RemoveAt(runs, i)
    /\ last' = Step("discoverDevices", "", NoId, << >>, "ok", 0)
    /\ UNCHANGED << envVars, modeVars, locationDevices, devices, published, instances >>

\* The vendor's device enumeration changes.
VendorDevicesChange(list) ==
    /\ list # vendorDevices
    /\ vendorDevices' = list
    /\ last' = Step("vendorDevicesChange", "", NoId, << >>, "ok", 0)
    /\ UNCHANGED << hasAlarmBaseStation, nightModeBypassAlarmState, vendorMode, cameras,
                    modeVars, discoveryVars >>

(***************************************************************************)
(* getDevice and releaseDevice (lines 234-250)                             *)
(***************************************************************************)
\* Upper bound on the number of instances constructed for one nativeId.
MaxInstances == 2

\* The nativeIds the host may ask for: those a descriptor can carry.
HostIds ==
    { cameraDevice(c).nativeId : c \in DOMAIN CameraRecords }
    \cup { locationDeviceDescriptor(d)[1].nativeId :
             d \in { x \in DOMAIN DeviceRecords : locationDeviceDescriptor(x) # Undefined } }

\* A device instance: the inst-th instance constructed for its nativeId.  Two
\* instances are the same object when nativeId and inst agree.
Instance(inst, class, device) == [inst |-> inst, class |-> class, device |-> device]

\* Lines 236-245: the class getDevice constructs for a nativeId.
deviceClass(nativeId) ==
    IF endsWith(nativeId, "-sensor") THEN "RingSensor"
    ELSE IF endsWith(nativeId, "-lock") THEN "RingLock"
    ELSE "RingCameraDevice"

\* Mutant of constructorOutcomes: every constructor accepts an undefined record.
constructorOutcomesLenient(class, record) == {"constructed"}

\* What a constructor does with the record it is given.  RingSensor and RingLock
\* read device.onData (lines 14 and 48): with an undefined record that is a
\* TypeError.  RingCameraDevice is defined in camera.ts: with an undefined record
\* it either throws or constructs.
constructorOutcomes(class, record) ==
    IF record # Undefined THEN {"constructed"}
    ELSE IF class \in {"RingSensor", "RingLock"} THEN {"TypeError"}
    ELSE {"TypeError", "constructed"}

\* Mutant of mustConstruct: the has() test of line 235 is missing.
alwaysConstruct(cache, nativeId) == TRUE

\* Line 235: whether getDevice has to construct an instance for nativeId.
mustConstruct(cache, nativeId) == ~MapHas(cache, nativeId)

\* getDevice(nativeId).
GetDevice(nativeId) ==
    IF mustConstruct(devices, nativeId)
    THEN LET class == deviceClass(nativeId)
             record == MapGet(locationDevices, nativeId)
         IN  \E outcome \in constructorOutcomes(class, record) :
                 IF outcome = "constructed"
                 THEN /\ instances[nativeId] < MaxInstances
                      /\ instances' = [instances EXCEPT ![nativeId] = @ + 1]
                      /\ devices' = MapSet(devices, nativeId,
                                           Instance(instances[nativeId] + 1, class, record))
                      /\ last' = Step("getDevice", "constructed", nativeId, << >>, "ok",
                                      instances[nativeId] + 1)
                      /\ UNCHANGED << envVars, modeVars, locationDevices, runs, published >>
                 ELSE /\ last' = Step("getDevice", "constructed", nativeId, << >>, outcome, 0)
                      /\ UNCHANGED << envVars, modeVars, discoveryVars >>
    ELSE /\ last' = Step("getDevice", "cached", nativeId, << >>, "ok", devices[nativeId].inst)
         /\ UNCHANGED << envVars, modeVars, discoveryVars >>

\* Line 250: releaseDevice(id, nativeId) has an empty body.
ReleaseDevice(nativeId) ==
    /\ last' = Step("releaseDevice", "", nativeId, << >>, "ok", 0)
    /\ UNCHANGED << envVars, modeVars, discoveryVars >>

(***************************************************************************)
(* The state in which the constructor returns (lines 64-122)              *)
(***************************************************************************)
Init ==
    /\ hasAlarmBaseStation \in BOOLEAN
    /\ nightModeBypassAlarmState \in NightModeSettings
    /\ vendorMode \in LocationModes
    /\ cameras \in CameraLists
    /\ vendorDevices \in DeviceLists \cup SensorLists \cup TypedLists
    \* line 96
    /\ onLocationModeSubscribed = TRUE
    \* line 100
    /\ panel = "pending"
    /\ panelSubscribed = FALSE
    /\ panelQueries = NoQueries
    \* lines 111-119
    /\ startupQuery = IF hasAlarmBaseStation THEN "sent" ELSE "none"
    /\ securitySystemState = startupState(Undefined)
    /\ unhandled = {}
    /\ modeFeedDelivered = FALSE
    \* line 64
    /\ devices = EmptyMap
    /\ instances = [n \in HostIds |-> 0]
    \* line 121: discoverDevices() runs up to its first await
    /\ locationDevices = discoverDevicesStart(EmptyMap).locationDevices
    /\ runs = << Run("getDevices", discoverDevicesStart(EmptyMap).devices, "constructor") >>
    /\ published = Undefined
    /\ last = Step("constructor", "", NoId, << >>, "ok", 0)
    \* the run of line 121 started from the empty index of line 65
    /\ discoveryHistory = [before |-> EmptyMap, completed |-> << >>]
    /\ modeHistory = [overtaken |-> FALSE, stale |-> FALSE, reported |-> FALSE]

\* The reconciler on its own: the discovery of line 121 stays suspended.
InitMode ==
    /\ Init
    /\ cameras = << 101, 102 >>
    /\ vendorDevices = << 1, 2, 3, 4 >>

\* Discovery and the device cache on their own: no feed event is delivered.
InitDiscovery ==
    /\ Init
    /\ hasAlarmBaseStation = FALSE
    /\ vendorMode = "disarmed"
    /\ nightModeBypassAlarmState = "Disabled"
    /\ vendorDevices \in DeviceLists

\* Discovery and arming on their own: no feed event and no getDevice call.
InitArm ==
    /\ Init
    /\ hasAlarmBaseStation = FALSE
    /\ vendorMode = "disarmed"
    /\ vendorDevices \in SensorLists

NextMode ==
    \/ UNCHANGED historyVars /\ \E f \in LocationModes : ModeFeed(f)
    \/ UNCHANGED historyVars /\ \E f \in LocationModes : VendorModeChange(f)
    \/ UNCHANGED historyVars /\ \E v \in NightModeSettings : SetNightMode(v)
    \/ UNCHANGED historyVars /\ PanelResolve
    \/ UNCHANGED historyVars /\ PanelReject
    \/ UNCHANGED historyVars /\ PanelData
    \/ UNCHANGED historyVars /\ VendorAnswerPanel
    \/ UNCHANGED historyVars /\ VendorAnswerStartup
    \/ UNCHANGED historyVars /\ \E f \in LocationModes : PanelQueryResolve(f)
    \/ UNCHANGED historyVars /\ \E f \in LocationModes : StartupQueryResolve(f)
    \/ UNCHANGED historyVars /\ PanelQueryReject
    \/ UNCHANGED historyVars /\ StartupQueryReject
    \/ UNCHANGED historyVars /\ \E mode \in SecuritySystemModes, outcome \in {"ok", "error"} :
           ArmSecuritySystem(mode, outcome)
    \/ UNCHANGED historyVars /\ \E outcome \in {"ok", "error"} : DisarmSecuritySystem(outcome)

NextDiscovery ==
    \/ UNCHANGED historyVars /\ DiscoverDevices
    \/ UNCHANGED historyVars /\ \E i \in DOMAIN runs : GetDevicesResolve(i)
    \/ UNCHANGED historyVars /\ \E i \in DOMAIN runs : GetDevicesReject(i)
    \/ UNCHANGED historyVars /\ \E i \in DOMAIN runs : OnDevicesChangedResolve(i)
    \/ UNCHANGED historyVars /\ \E list \in DeviceLists : VendorDevicesChange(list)
    \/ UNCHANGED historyVars /\ \E nativeId \in HostIds : GetDevice(nativeId)
    \/ UNCHANGED historyVars /\ \E nativeId \in HostIds : ReleaseDevice(nativeId)

NextArm ==
    \/ UNCHANGED historyVars /\ DiscoverDevices
    \/ UNCHANGED historyVars /\ \E i \in DOMAIN runs : GetDevicesResolve(i)
    \/ UNCHANGED historyVars /\ \E i \in DOMAIN runs : GetDevicesReject(i)
    \/ UNCHANGED historyVars /\ \E i \in DOMAIN runs : OnDevicesChangedResolve(i)
    \/ UNCHANGED historyVars /\ \E list \in SensorLists : VendorDevicesChange(list)
    \/ UNCHANGED historyVars /\ \E v \in NightModeSettings : SetNightMode(v)
    \/ UNCHANGED historyVars /\ \E mode \in SecuritySystemModes, outcome \in {"ok", "error"} :
           ArmSecuritySystem(mode, outcome)
    \/ UNCHANGED historyVars /\ \E outcome \in {"ok", "error"} : DisarmSecuritySystem(outcome)

SpecMode == InitMode /\ [][NextMode]_vars
SpecDiscovery == InitDiscovery /\ [][NextDiscovery]_vars
SpecArm == InitArm /\ [][NextArm]_vars

\* One discovery pass over a typed device: the run the constructor started
\* completes, with no other call.
InitTyped ==
    /\ Init
    /\ hasAlarmBaseStation = FALSE
    /\ vendorMode = "disarmed"
    /\ nightModeBypassAlarmState = "Disabled"
    /\ cameras = << >>
    /\ vendorDevices \in TypedLists

NextTyped ==
    \/ UNCHANGED historyVars /\ \E i \in DOMAIN runs : GetDevicesResolve(i)
    \/ UNCHANGED historyVars /\ \E i \in DOMAIN runs : OnDevicesChangedResolve(i)

SpecTyped == InitTyped /\ [][NextTyped]_vars

(***************************************************************************)
(* Discovery run again and again, the runs one after the other and the     *)
(* vendor's cameras and devices as they were.  discoveryHistory records    *)
(* the index each run started from and what the latest two runs that       *)
(* returned had published and left in the index.                           *)
(***************************************************************************)
Range(seq) == { seq[i] : i \in DOMAIN seq }

\* The latest two entries of a sequence.
LatestTwo(seq) == IF Len(seq) > 2 THEN SubSeq(seq, Len(seq) - 1, Len(seq)) ELSE seq

\* What a run that returned had passed to onDevicesChanged (line 228) and the
\* keys it leaves in this.locationDevices.
CompletedRun(descriptors, index) ==
    [devices |-> Range(descriptors), keys |-> DOMAIN index]

\* Lines 125-167, called when no other run is suspended.
RerunDiscoverDevices ==
    /\ runs = << >>
    /\ DiscoverDevices
    /\ discoveryHistory' = [discoveryHistory EXCEPT !.before = locationDevices]
    /\ UNCHANGED modeHistory

\* Lines 228-232.
RerunOnDevicesChangedResolve(i) ==
    /\ OnDevicesChangedResolve(i)
    /\ discoveryHistory' =
           [discoveryHistory EXCEPT
               !.completed = LatestTwo(Append(@, CompletedRun(runs[i].devices, locationDevices)))]
    /\ UNCHANGED modeHistory

InitRerun ==
    /\ Init
    /\ hasAlarmBaseStation = FALSE
    /\ vendorMode = "disarmed"
    /\ nightModeBypassAlarmState = "Disabled"

NextRerun ==
    \/ RerunDiscoverDevices
    \/ UNCHANGED historyVars /\ \E i \in DOMAIN runs : GetDevicesResolve(i)
    \/ UNCHANGED historyVars /\ \E i \in DOMAIN runs : GetDevicesReject(i)
    \/ \E i \in DOMAIN runs : RerunOnDevicesChangedResolve(i)

SpecRerun == InitRerun /\ [][NextRerun]_vars

\* Discovery calls that overlap and all succeed, while the vendor's device
\* enumeration changes.
NextOverlap ==
    \/ UNCHANGED historyVars /\ DiscoverDevices
    \/ UNCHANGED historyVars /\ \E i \in DOMAIN runs : GetDevicesResolve(i)
    \/ UNCHANGED historyVars /\ \E i \in DOMAIN runs : OnDevicesChangedResolve(i)
    \/ UNCHANGED historyVars /\ \E list \in DeviceLists \cup SensorLists : VendorDevicesChange(list)

SpecOverlap == InitRerun /\ [][NextOverlap]_vars

(***************************************************************************)
(* The two feeds of a location without startup query, one panel query in   *)
(* flight at a time.  modeHistory records the order of the events:         *)
(*   overtaken  the response in flight was given by the vendor before the  *)
(*              latest mode-feed event was delivered;                      *)
(*   stale      the snapshot was written last by such a response;          *)
(*   reported   since the vendor's mode last changed, a feed event has     *)
(*              been delivered and no query has failed.                    *)
(***************************************************************************)
\* Line 96.
RaceModeFeed(f) ==
    /\ ModeFeed(f)
    /\ modeHistory' = [overtaken |-> \E g \in LocationModes : panelQueries[g] > 0,
                       stale |-> FALSE,
                       reported |-> TRUE]
    /\ UNCHANGED discoveryHistory

RaceVendorModeChange(f) ==
    /\ VendorModeChange(f)
    /\ modeHistory' = [modeHistory EXCEPT !.reported = FALSE]
    /\ UNCHANGED discoveryHistory

\* Lines 101-102.
RacePanelData ==
    /\ QueryCount = 0
    /\ PanelData
    /\ modeHistory' = [modeHistory EXCEPT !.overtaken = FALSE, !.reported = TRUE]
    /\ UNCHANGED discoveryHistory

\* Lines 102-104.
RacePanelQueryResolve(f) ==
    /\ PanelQueryResolve(f)
    /\ modeHistory' = [modeHistory EXCEPT !.overtaken = FALSE, !.stale = modeHistory.overtaken]
    /\ UNCHANGED discoveryHistory

\* Line 102.
RacePanelQueryReject ==
    /\ PanelQueryReject
    /\ modeHistory' = [modeHistory EXCEPT !.overtaken = FALSE, !.reported = FALSE]
    /\ UNCHANGED discoveryHistory

InitRace ==
    /\ InitMode
    /\ hasAlarmBaseStation = FALSE

NextRace ==
    \/ \E f \in LocationModes : RaceModeFeed(f)
    \/ \E f \in LocationModes : RaceVendorModeChange(f)
    \/ UNCHANGED historyVars /\ PanelResolve
    \/ UNCHANGED historyVars /\ PanelReject
    \/ RacePanelData
    \/ UNCHANGED historyVars /\ VendorAnswerPanel
    \/ \E f \in LocationModes : RacePanelQueryResolve(f)
    \/ RacePanelQueryReject

SpecRace == InitRace /\ [][NextRace]_vars

(***************************************************************************)
(* Properties                                                              *)
(***************************************************************************)

\* The mode a raw LocationMode value stands for.
ModeOf(f) == CASE f = "away" -> AwayArmed [] f = "home" -> HomeArmed [] OTHER -> Disarmed

\* The snapshot, when there is one.
Snapshot == securitySystemState[1]

\* The status flag of the vendor record a reference names.
StatusOf(ref) ==
    IF ref.kind = "camera" THEN CameraStatus[ref.id] ELSE DeviceRecords[ref.id].status

\* C1.  At most one instance is ever constructed for a nativeId; once constructed it
\* stays in the cache, whatever discoverDevices and releaseDevice do, and every
\* getDevice call that returns an instance returns that first one.
C1_OneInstancePerId ==
    /\ \A n \in HostIds :
          /\ instances[n] <= 1
          /\ instances[n] = 1 => MapHas(devices, n) /\ devices[n].inst = 1
          /\ MapHas(devices, n) => instances[n] = 1
    /\ (last.op = "getDevice" /\ last.result = "ok") => last.inst = 1

\* A getDevice call served from the cache after a re-discovery dropped the record
\* of the nativeId from the index.
C1_Witness ==
    /\ last.op = "getDevice" /\ last.arg = "cached" /\ last.inst = 1
    /\ ~MapHas(locationDevices, last.id)
    /\ published # Undefined

\* C2.  A mode-feed event with value m leaves the snapshot with mode AwayArmed for
\* 'away', HomeArmed for 'home', Disarmed otherwise, triggered false and
\* Disarmed, AwayArmed, HomeArmed among supportedModes; a snapshot never has
\* triggered set.
C2_ModeFeedSnapshot ==
    /\ last.op = "modeFeed" =>
          /\ securitySystemState # Undefined
          /\ Snapshot.mode = (IF last.arg = "away" THEN AwayArmed
                              ELSE IF last.arg = "home" THEN HomeArmed ELSE Disarmed)
          /\ Snapshot.triggered = FALSE
          /\ {Disarmed, AwayArmed, HomeArmed} \subseteq Range(Snapshot.supportedModes)
    /\ securitySystemState # Undefined => Snapshot.triggered = FALSE

C2_Witness ==
    /\ last.op = "modeFeed" /\ last.arg = "home"
    /\ securitySystemState # Undefined /\ Snapshot.mode = HomeArmed

\* C3.  While the setting is 'Disabled', supportedModes of the stored snapshot does
\* not contain NightArmed.
C3_NoNightArmedWhenDisabled ==
    (nightModeBypassAlarmState = "Disabled" /\ securitySystemState # Undefined)
        => NightArmed \notin Range(Snapshot.supportedModes)

\* C4.  armSecuritySystem(NightArmed) after a completed discovery issues one command,
\* armAway when the setting is 'Away' and armHome otherwise, whose bypass list holds
\* exactly the ids of the indexed contact sensors and retrofit zones that are faulted.
C4_NightBypassList ==
    (/\ last.op = "armSecuritySystem" /\ last.arg = NightArmed
     /\ runs = << >> /\ published # Undefined)
        => /\ Len(last.cmds) = 1
           /\ last.cmds[1].cmd =
                  (IF nightModeBypassAlarmState = "Away" THEN "armAway" ELSE "armHome")
           /\ last.cmds[1].bypass # Undefined
           /\ Range(last.cmds[1].bypass[1]) =
                  { locationDevices[k].id :
                      k \in { x \in DOMAIN locationDevices :
                                /\ locationDevices[x].kind = "device"
                                /\ DeviceRecords[locationDevices[x].id].deviceType
                                       \in {ContactSensor, RetrofitZone}
                                /\ DeviceRecords[locationDevices[x].id].faulted } }

\* C5.  With the panel resolved, a panel-feed event starts one getLocationMode()
\* query, and the step in which such a query resolves overwrites the snapshot with
\* the mode the response stands for.
C5_PanelEventRequeries ==
    [][ /\ last'.op = "panelData" =>
              /\ panel = "resolved"
              /\ panelQueries'["sent"] = panelQueries["sent"] + 1
        /\ last'.op = "panelQueryResolve" =>
              /\ panelQueries[last'.arg] > 0
              /\ securitySystemState' # Undefined
              /\ securitySystemState'[1].mode = ModeOf(last'.arg)
      ]_vars

\* A panel query set the snapshot to AwayArmed although no mode-feed event and no
\* startup query ever ran.
C5_Witness ==
    /\ last.op = "panelQueryResolve" /\ last.arg = "away"
    /\ ~modeFeedDelivered /\ startupQuery = "none"
    /\ securitySystemState # Undefined /\ Snapshot.mode = AwayArmed

\* C6.  The step in which getSecurityPanel() rejects leaves the snapshot as it was and
\* leaves no rejection unhandled; the mode feed stays subscribed, and a mode-feed
\* event delivered after the rejection sets the snapshot.
C6_PanelFailureAbsorbed ==
    [][ /\ last'.op = "panelReject" =>
              /\ securitySystemState' = securitySystemState
              /\ unhandled' = unhandled
        /\ panel' = "rejected" =>
              /\ "getSecurityPanel" \notin unhandled'
              /\ onLocationModeSubscribed'
              /\ ~panelSubscribed'
        /\ (panel = "rejected" /\ last'.op = "modeFeed") =>
              /\ securitySystemState' # Undefined
              /\ securitySystemState'[1].mode = ModeOf(last'.arg)
      ]_vars

C6_Witness ==
    /\ panel = "rejected"
    /\ last.op = "modeFeed" /\ last.arg = "away"
    /\ securitySystemState # Undefined /\ Snapshot.mode = AwayArmed
    /\ unhandled = {}

\* C7.  No vendor record whose status is 'disabled' is in the index or in the
\* descriptor list handed to onDevicesChanged.
C7_NoDisabledRecord ==
    /\ \A k \in DOMAIN locationDevices : StatusOf(locationDevices[k]) # "disabled"
    /\ published # Undefined =>
          \A d \in Range(published[1]) :
              StatusOf(IF d.nativeId.suffix = "" THEN CameraRef(d.nativeId.id)
                       ELSE DeviceRef(d.nativeId.id)) # "disabled"

\* C8.  With an alarm base station, the snapshot exists in every state from the
\* return of the constructor on, with mode Disarmed, HomeArmed or AwayArmed.
C8_SnapshotKnown ==
    hasAlarmBaseStation =>
        /\ securitySystemState # Undefined
        /\ Snapshot.mode \in {Disarmed, HomeArmed, AwayArmed}

\* The startup query failed and the snapshot is the one the constructor forced.
C8_Witness ==
    /\ hasAlarmBaseStation
    /\ last.op = "startupQueryReject"
    /\ securitySystemState # Undefined /\ Snapshot.mode = Disarmed

\* C9.  A step of armSecuritySystem or disarmSecuritySystem leaves the snapshot as
\* it was; the snapshot changes only in a step that delivers a mode-feed event or
\* resolves a mode query.
C9_ArmLeavesSnapshot ==
    [][ /\ last'.op \in {"armSecuritySystem", "disarmSecuritySystem"} =>
              securitySystemState' = securitySystemState
        /\ securitySystemState' # securitySystemState =>
              last'.op \in {"modeFeed", "panelQueryResolve", "startupQueryResolve"}
      ]_vars

\* armSecuritySystem(AwayArmed) succeeded, the vendor is in 'away', and the snapshot
\* still says Disarmed.
C9_Witness ==
    /\ last.op = "armSecuritySystem" /\ last.arg = AwayArmed /\ last.result = "ok"
    /\ vendorMode = "away"
    /\ securitySystemState # Undefined /\ Snapshot.mode = Disarmed

\* C10.  armSecuritySystem issues exactly armAway without a bypass list for
\* AwayArmed, armHome without a bypass list for HomeArmed and disarm for Disarmed;
\* disarmSecuritySystem issues exactly disarm.
C10_ArmCommands ==
    /\ last.op = "armSecuritySystem" =>
          /\ last.arg = AwayArmed => last.cmds = << [cmd |-> "armAway", bypass |-> << >>] >>
          /\ last.arg = HomeArmed => last.cmds = << [cmd |-> "armHome", bypass |-> << >>] >>
          /\ last.arg = Disarmed => last.cmds = << [cmd |-> "disarm", bypass |-> << >>] >>
    /\ last.op = "disarmSecuritySystem" =>
          last.cmds = << [cmd |-> "disarm", bypass |-> << >>] >>

\* armSecuritySystem(HomeArmed) while the snapshot already says HomeArmed.
C10_Witness ==
    /\ last.op = "armSecuritySystem" /\ last.arg = HomeArmed
    /\ last.cmds = << [cmd |-> "armHome", bypass |-> << >>] >>
    /\ securitySystemState # Undefined /\ Snapshot.mode = HomeArmed

\* The descriptors of the latest onDevicesChanged call that stem from vendor id.
PublishedFor(id) ==
    IF published = Undefined THEN {}
    ELSE { d \in Range(published[1]) : d.nativeId.id = id }

\* The index keys that stem from vendor id.
IndexedFor(id) == { k \in DOMAIN locationDevices : k.id = id }

\* What C11 and its amendment say of the first device of the enumeration, once the
\* loop of lines 168-226 has run over it: sensorTypes are the types said to yield
\* TamperSensor and EntrySensor; a type in noneTypes is said to yield nothing.
BatteryOf(data) == IF data.batteryStatus # "none" THEN {"Battery"} ELSE {}
IsLockTag(tag) == tag = << "lock" >> \/ (Len(tag) > 1 /\ tag[1] = "lock")
YieldsOne(id, suffix, type, interfaces) ==
    /\ IndexedFor(id) = { NativeId(id, suffix) }
    /\ locationDevices[NativeId(id, suffix)] = DeviceRef(id)
    /\ Cardinality(PublishedFor(id)) = 1
    /\ \A d \in PublishedFor(id) :
          /\ d.nativeId = NativeId(id, suffix)
          /\ d.type = type
          /\ Range(d.interfaces) = interfaces \cup BatteryOf(dataOf(id))
YieldsNone(id) == IndexedFor(id) = {} /\ PublishedFor(id) = {}
PassContinued == YieldsOne(1, "-sensor", "Sensor", {"TamperSensor", "EntrySensor"})

\* C11, as claimed.  Every type other than contact, retrofit-zone, tilt and lock
\* yields no descriptor.
C11_ClassificationAsClaimed ==
    (published # Undefined /\ dataOf(vendorDevices[1]).status # "disabled") =>
        LET id == vendorDevices[1]
            tag == dataOf(id).deviceType
        IN  /\ tag \in {ContactSensor, RetrofitZone, TiltSensor} =>
                  YieldsOne(id, "-sensor", "Sensor", {"TamperSensor", "EntrySensor"})
            /\ IsLockTag(tag) => YieldsOne(id, "-lock", "Lock", {"Lock"})
            /\ (tag \notin {ContactSensor, RetrofitZone, TiltSensor} /\ ~IsLockTag(tag)) =>
                  YieldsNone(id)
            /\ PassContinued

\* C11, amended.  Motion sensors yield TamperSensor and MotionSensor, flood-freeze
\* and water sensors TamperSensor and FloodSensor; every remaining type yields no
\* descriptor and no index entry, and the pass goes on to the next record.
C11_Classification ==
    (published # Undefined /\ dataOf(vendorDevices[1]).status # "disabled") =>
        LET id == vendorDevices[1]
            tag == dataOf(id).deviceType
        IN  /\ tag \in {ContactSensor, RetrofitZone, TiltSensor} =>
                  YieldsOne(id, "-sensor", "Sensor", {"TamperSensor", "EntrySensor"})
            /\ tag = MotionSensor =>
                  YieldsOne(id, "-sensor", "Sensor", {"TamperSensor", "MotionSensor"})
            /\ tag \in {FloodFreezeSensor, WaterSensor} =>
                  YieldsOne(id, "-sensor", "Sensor", {"TamperSensor", "FloodSensor"})
            /\ IsLockTag(tag) => YieldsOne(id, "-lock", "Lock", {"Lock"})
            /\ (/\ tag \notin {ContactSensor, RetrofitZone, TiltSensor, MotionSensor,
                               FloodFreezeSensor, WaterSensor}
                /\ ~IsLockTag(tag)) => YieldsNone(id)
            /\ PassContinued

\* A pass over an unsupported type that went on to index and publish sensor 1.
C11_Witness ==
    /\ published # Undefined
    /\ dataOf(vendorDevices[1]).deviceType = << "locksmith" >>
    /\ dataOf(vendorDevices[1]).status = "ok"
    /\ YieldsNone(vendorDevices[1])
    /\ PassContinued

\* C12: of two discoverDevices runs executed one after the other, with the vendor's
\* cameras and devices as they were, the second publishes the same set of
\* descriptors as the first and leaves the same key set in the index.
C12_RerunSameResult ==
    Len(discoveryHistory.completed) = 2 =>
        /\ discoveryHistory.completed[1].devices = discoveryHistory.completed[2].devices
        /\ discoveryHistory.completed[1].keys = discoveryHistory.completed[2].keys

\* Two runs have returned, each with cameras and generic devices in its list.
C12_Witness ==
    /\ Len(discoveryHistory.completed) = 2
    /\ runs = << >>
    /\ \E d \in discoveryHistory.completed[2].devices : d.nativeId.suffix = ""
    /\ \E d \in discoveryHistory.completed[2].devices : d.nativeId.suffix = "-sensor"
    /\ \E d \in discoveryHistory.completed[2].devices : d.nativeId.suffix = "-lock"

\* C13: a step in which discoverDevices ends with the error of the enumeration ends
\* the one run that was suspended at getDevices and starts no other (no retry),
\* makes no onDevicesChanged call, and rejects the promise of the call: the host
\* caller receives the error, and for the call of line 121, whose promise the
\* constructor dropped, the rejection is left unhandled.
C13_EnumerationFailure ==
    [][(last'.op = "discoverDevices" /\ last'.result = "error") =>
          /\ published' = published
          /\ locationDevices' = locationDevices
          /\ \E i \in DOMAIN runs :
                /\ runs[i].pc = "getDevices"
                /\ runs' = RemoveAt(runs, i)
                /\ unhandled' = IF runs[i].caller = "constructor"
                                THEN unhandled \cup {"discoverDevices"}
                                ELSE unhandled]_vars

\* A host call of discoverDevices has failed after an earlier run had published.
C13_Witness ==
    /\ last.op = "discoverDevices"
    /\ last.result = "error"
    /\ published # Undefined
    /\ published[1] # << >>
    /\ "discoverDevices" \notin unhandled

\* C14: at startup of a location with an alarm base station, startup initialization
\* sets the snapshot to Disarmed only after the startup query has been applied and
\* left no snapshot: while the query of line 112 is in flight the constructor has
\* set no snapshot, and a query that reports 'away' or 'home' leaves that mode.
C14_ForceInitAfterQuery ==
    /\ (/\ hasAlarmBaseStation
        /\ last.op = "constructor"
        /\ startupQuery \notin {"resolved", "rejected"}) => securitySystemState = Undefined
    /\ (/\ last.op = "startupQueryResolve"
        /\ last.arg \in {"away", "home"}) => Snapshot.mode = ModeOf(last.arg)

\* C15: last-writer-wins has a race.  When the response of a query that a
\* panel-feed event started is applied after a newer mode-feed event, the snapshot
\* is the one the response gives, whatever the mode-feed event had set: if the
\* vendor's mode is still the one the mode-feed event reported and the response
\* carries another, the snapshot is left at a stale mode.
C15_StaleResponseWins ==
    (modeHistory.stale /\ last.op = "panelQueryResolve") =>
        /\ securitySystemState = updateLocationMode(last.arg)
        /\ (modeHistory.reported /\ last.arg # vendorMode) => Snapshot.mode # ModeOf(vendorMode)

\* The race has happened: a mode-feed event reported the vendor's current mode, the
\* older response was applied after it, and the snapshot differs from that mode.
C15_Witness ==
    /\ modeHistory.stale
    /\ modeHistory.reported
    /\ modeFeedDelivered
    /\ last.op = "panelQueryResolve"
    /\ QueryCount = 0
    /\ Snapshot.mode # ModeOf(vendorMode)

\* C16: getDevice tolerates racing with discovery.  A getDevice call for an
\* identifier of the published descriptor list returns an instance and raises no
\* error, and an instance it constructs is backed by the vendor record the index
\* holds for the identifier, also while a discoverDevices run is suspended at
\* getDevices with the index cleared.
C16_GetDeviceToleratesDiscovery ==
    (/\ last.op = "getDevice"
     /\ published # Undefined
     /\ \E d \in Range(published[1]) : d.nativeId = last.id) =>
        /\ last.result = "ok"
        /\ last.arg = "constructed" => devices[last.id].device # Undefined

\* C17: discovery rebuilds the index on every invocation, also when invocations
\* overlap.  Once every discoverDevices run that was started has returned, the keys
\* of the index are exactly the identifiers of the descriptor list published last.
C17_IndexIsLatestPublished ==
    (runs = << >> /\ published # Undefined) =>
        DOMAIN locationDevices = { d.nativeId : d \in Range(published[1]) }

\* C18 as claimed: when no discovery is in progress, every identifier in the
\* device cache is a key of the index.
C18_CacheWithinIndex ==
    runs = << >> => DOMAIN devices \subseteq DOMAIN locationDevices

\* C18, amended: a sensor or lock identifier enters the device cache only in a
\* getDevice call that finds it in the index, and its instance is backed by the
\* record the index holds then; no entry ever leaves the cache, so after a
\* discovery that no longer yields the identifier the cache still holds it.
C18_CacheBackedAndKept ==
    [][/\ DOMAIN devices \subseteq DOMAIN devices'
       /\ \A k \in DOMAIN devices' \ DOMAIN devices :
             k.suffix # "" =>
                 /\ MapHas(locationDevices, k)
                 /\ devices'[k].device = MapGet(locationDevices, k)]_vars

\* No discovery is in progress, and the cache holds a sensor or lock identifier
\* that the latest discovery did not put in the index.
C18_Witness ==
    /\ runs = << >>
    /\ published # Undefined
    /\ last.op = "discoverDevices"
    /\ last.result = "ok"
    /\ \E k \in DOMAIN devices : k.suffix # "" /\ k \notin DOMAIN locationDevices

\* C19: the snapshot converges.  When no query is in flight, and since the vendor's
\* mode last changed a feed event has been delivered and no query has failed, the
\* snapshot's mode is the one the vendor's current mode maps to.
C19_SnapshotConverges ==
    (modeHistory.reported /\ QueryCount = 0) =>
        /\ securitySystemState # Undefined
        /\ Snapshot.mode = ModeOf(vendorMode)

\* C20: a failed discovery leaves the index as it was.  When a discoverDevices run
\* that follows a successful one ends with the error of the enumeration, the index
\* has the contents it had when the run started: the sensor and lock identifiers
\* of the earlier discovery still resolve to their vendor records.
C20_FailedDiscoveryKeepsIndex ==
    (/\ last.op = "discoverDevices"
     /\ last.result = "error"
     /\ discoveryHistory.completed # << >>) =>
        locationDevices = discoveryHistory.before

====
